---- MODULE Spec2Model ----
(***************************************************************************)
(* The N-body integrator of integracao/integracao.py (class RK4): the      *)
(* mass-derived arrays built by the constructor, the pairwise force        *)
(* computation `forcas`, the update `runge_kutta4` and the loop            *)
(* `aplicarNVezes`.                                                        *)
(*                                                                         *)
(* Numbers.  A number is a pair <<n, d>> of integers: the rational n/d in  *)
(* lowest terms with d > 0, or one of the three non-finite values of the   *)
(* floating-point arithmetic numpy computes with: <<1,0>> (inf),           *)
(* <<-1,0>> (-inf) and <<0,0>> (nan).  Finite arithmetic is exact: the     *)
(* rounding of the 64-bit floats is not modelled.                          *)
(*                                                                         *)
(* Arrays.  A 2-d numpy array is a sequence of rows, each a sequence of    *)
(* numbers; a 3-d array is a sequence of 2-d arrays.  Elementwise          *)
(* operations follow numpy's broadcasting rule and fail (ValueError) on    *)
(* shapes that cannot be broadcast together.                               *)
(***************************************************************************)
EXTENDS Integers, Sequences, FiniteSets, TLC

VARIABLES
    pc,      \* where the caller is: "new" (no instance), "failed" (the
             \* constructor raised), "ready" (constructed), "running" (inside
             \* aplicarNVezes), "returned", "raised" (aplicarNVezes is over)
    self,    \* the fields of the RK4 instance
    argR,    \* the caller's positions array, as passed to aplicarNVezes
    argP,    \* the caller's momenta array, as passed to aplicarNVezes
    n,       \* aplicarNVezes: the parameter n
    it,      \* aplicarNVezes: iterations of the loop completed
    R,       \* aplicarNVezes: the local R
    P,       \* aplicarNVezes: the local P
    F,       \* aplicarNVezes: the local F (<<>> while it is unbound)
    FSomas,  \* aplicarNVezes: the local FSomas (<<>> while it is unbound)
    Fbound,  \* aplicarNVezes: whether the locals F and FSomas are bound
    stepR,   \* history: the R the latest iteration started from
    stepP,   \* history: the P the latest iteration started from
    ret      \* outcome of the latest constructor or aplicarNVezes call

vars == <<pc, self, argR, argP, n, it, R, P, F, FSomas, Fbound, stepR, stepP, ret>>

----------------------------------------------------------------------------
(* Bounds of the model *)

\* largest n passed to aplicarNVezes
MaxSteps == 2

\* an iteration is followed while the numerators and denominators of R and P
\* stay within this magnitude (the arithmetic of the model is 32-bit)
MaxMagnitude == 500

----------------------------------------------------------------------------
(* Numbers *)

Abs(x) == IF x < 0 THEN -x ELSE x

Sign(x) == IF x < 0 THEN -1 ELSE IF x > 0 THEN 1 ELSE 0

RECURSIVE GCD(_, _)
GCD(a, b) == IF b = 0 THEN a ELSE GCD(b, a % b)

\* n/d in lowest terms, d > 0; with d = 0 the non-finite value of that sign
Norm(a, b) ==
    IF b = 0 THEN <<Sign(a), 0>>
    ELSE LET g == GCD(Abs(a), Abs(b))
         IN  <<Sign(b) * (a \div g), Abs(b) \div g>>

Zero == <<0, 1>>
One == <<1, 1>>
NaN == <<0, 0>>

Int2Num(k) == <<k, 1>>

IsFinite(x) == x[2] # 0

\* float addition
Add(x, y) ==
    IF x[2] = 0 \/ y[2] = 0
    THEN IF x = NaN \/ y = NaN THEN NaN
         ELSE IF x[2] = 0 /\ y[2] = 0
              THEN (IF x = y THEN x ELSE NaN)
              ELSE (IF x[2] = 0 THEN x ELSE y)
    ELSE LET g == GCD(x[2], y[2])
         IN  Norm(x[1] * (y[2] \div g) + y[1] * (x[2] \div g), (x[2] \div g) * y[2])

Neg(x) == <<-x[1], x[2]>>

Sub(x, y) == Add(x, Neg(y))

\* float multiplication (inf * 0 = nan)
Mul(x, y) ==
    IF x[2] = 0 \/ y[2] = 0 THEN <<Sign(x[1]) * Sign(y[1]), 0>>
    ELSE LET g1 == GCD(Abs(x[1]), y[2])
             g2 == GCD(Abs(y[1]), x[2])
         IN  <<(x[1] \div g1) * (y[1] \div g2), (x[2] \div g2) * (y[2] \div g1)>>

\* numpy true_divide on floats: x/0 is inf, -inf or nan, never an exception
Div(x, y) ==
    IF y[2] = 0 THEN (IF x[2] = 0 \/ y = NaN THEN NaN ELSE Zero)
    ELSE IF x[2] = 0 THEN (IF y[1] < 0 THEN Neg(x) ELSE x)
    ELSE IF y[1] = 0 THEN <<Sign(x[1]), 0>>
    ELSE Mul(x, <<Sign(y[1]) * y[2], Abs(y[1])>>)

Less(x, y) == x[1] * y[2] < y[1] * x[2]

\* Newton's iteration down from x >= sqrt(k)
RECURSIVE ISqrtFrom(_, _)
ISqrtFrom(k, x) ==
    LET y == (x + (k \div x)) \div 2
    IN  IF y >= x THEN x ELSE ISqrtFrom(k, y)

\* the integer square root of k >= 0
ISqrt(k) == IF k < 2 THEN k ELSE ISqrtFrom(k, k)

IsSquare(k) == LET r == ISqrt(k) IN r * r = k

\* x ** (3/2) for x >= 0, exact where x is the square of a rational
Pow32(x) ==
    IF x[2] = 0 THEN x
    ELSE LET a == ISqrt(x[1])
             b == ISqrt(x[2])
         IN  <<a * a * a, b * b * b>>

----------------------------------------------------------------------------
(* Arrays and numpy broadcasting *)

Rows(A) == Len(A)

Cols(A) == Len(A[1])

\* two lengths of one axis can be broadcast together
Compat(a, b) == a = b \/ a = 1 \/ b = 1

\* the length of the broadcast axis
BcDim(a, b) == IF a = 1 THEN b ELSE a

\* the index into an axis of length len that position i of the broadcast axis reads
Ix(i, len) == IF len = 1 THEN 1 ELSE i

Compat2(A, B) == Compat(Rows(A), Rows(B)) /\ Compat(Cols(A), Cols(B))

\* elementwise Op on two 2-d arrays of compatible shapes
Bc2(Op(_, _), A, B) ==
    LET a == A
        b == B
        ra == Rows(a)
        rb == Rows(b)
        ca == Cols(a)
        cb == Cols(b)
    IN  [i \in 1..BcDim(ra, rb) |->
            [k \in 1..BcDim(ca, cb) |->
                Op(a[Ix(i, ra)][Ix(k, ca)], b[Ix(i, rb)][Ix(k, cb)])]]

\* elementwise Op on two 3-d arrays of compatible shapes
Bc3(Op(_, _), A, B) ==
    LET a == A
        b == B
    IN  [i \in 1..BcDim(Len(a), Len(b)) |->
            Bc2(Op, a[Ix(i, Len(a))], b[Ix(i, Len(b))])]

\* scalar * array
Scale(c, A) ==
    LET a == A
        cc == c
    IN  [i \in 1..Rows(a) |-> [k \in 1..Cols(a) |-> Mul(cc, a[i][k])]]

\* X.transpose(1,0,2) of a 3-d array
Transpose102(X) == [i \in 1..Len(X[1]) |-> [j \in 1..Len(X) |-> X[j][i]]]

RECURSIVE SumNums(_)
SumNums(s) == IF Len(s) = 0 THEN Zero ELSE Add(SumNums(SubSeq(s, 1, Len(s) - 1)), s[Len(s)])

----------------------------------------------------------------------------
(* RK4.__init__ and RK4.guardar_massas *)

\* 1/mi of the list comprehension raises ZeroDivisionError on a mass 0
guardar_massas_raises(massas, dimensao) ==
    dimensao > 0 /\ \E i \in 1..Len(massas) : massas[i] = Zero

massasDuplicadasInvertidas(massas, dimensao) ==
    [i \in 1..Len(massas) |-> [k \in 1..dimensao |-> Div(One, massas[i])]]

\* MA[i][j] = 0 if j == i else massas[j]
MA(massas) ==
    [i \in 1..Len(massas) |-> [j \in 1..Len(massas) |-> IF j = i THEN Zero ELSE massas[j]]]

\* Faulty variant of prodM: MA * MA, the transpose forgotten.
prodM_NoTranspose(massas) ==
    LET M == MA(massas)
    IN  [i \in 1..Len(massas) |-> [j \in 1..Len(massas) |-> Mul(M[i][j], M[i][j])]]

\* MA * transpose(MA), elementwise
prodM(massas) ==
    LET M == MA(massas)
    IN  [i \in 1..Len(massas) |-> [j \in 1..Len(massas) |-> Mul(M[i][j], M[j][i])]]

ones(k) == [i \in 1..k |-> [j \in 1..k |-> One]]

identity(k) == [i \in 1..k |-> [j \in 1..k |-> IF i = j THEN One ELSE Zero]]

\* the instance __init__ leaves behind
NewRK4(massas, h, G, dimensao) ==
    [ dimensao |-> dimensao,
      qntd |-> Len(massas),
      h |-> h,
      G |-> G,
      massas |-> massas,
      massasDuplicadasInvertidas |-> massasDuplicadasInvertidas(massas, dimensao),
      prodM |-> prodM(massas),
      vetorUm |-> ones(Len(massas)),
      identidade |-> identity(Len(massas)) ]

\* no instance yet
NoRK4 ==
    [ dimensao |-> 0, qntd |-> 0, h |-> Zero, G |-> Zero, massas |-> <<>>,
      massasDuplicadasInvertidas |-> <<>>, prodM |-> <<>>, vetorUm |-> <<>>,
      identidade |-> <<>> ]

----------------------------------------------------------------------------
(* RK4.forcas *)

\* forcas raises: einsum cannot broadcast the rows of R against vetorUm
\* (ValueError), or, with no particle, sum(F) is the int 0, which has no
\* tolist (AttributeError)
forcas_raises(s, Rin) == s.qntd = 0 \/ ~Compat(s.qntd, Rows(Rin))

forcas_error(s, Rin) ==
    IF ~Compat(s.qntd, Rows(Rin)) THEN "ValueError" ELSE "AttributeError"

\* X = einsum('ij,ijk->ijk', vetorUm, [[Ri] for Ri in R])
matrizX(s, Rin) ==
    LET X0 == [i \in 1..Rows(Rin) |-> <<Rin[i]>>]
    IN  [i \in 1..BcDim(s.qntd, Rows(Rin)) |->
            [j \in 1..s.qntd |->
                [k \in 1..Cols(Rin) |->
                    Mul(s.vetorUm[Ix(i, s.qntd)][Ix(j, s.qntd)], X0[Ix(i, Rows(Rin))][1][k])]]]

\* difX = X - X.transpose(1,0,2)
difX(s, Rin) ==
    LET X == matrizX(s, Rin)
    IN  Bc3(Sub, X, Transpose102(X))

\* einsum('ijk,ijk->ij', difX, difX)
normaQuadrada(D3) ==
    [i \in 1..Len(D3) |-> [j \in 1..Len(D3[i]) |->
        SumNums([k \in 1..Len(D3[i][j]) |-> Mul(D3[i][j][k], D3[i][j][k])])]]

\* Faulty variant of norma: the identity matrix is not added.
norma_NoIdentity(s, D3) ==
    LET Q == normaQuadrada(D3)
    IN  [i \in 1..Len(Q) |-> [j \in 1..Len(Q[i]) |-> Pow32(Q[i][j])]]

\* norma = einsum(...)**(3/2) + identidade
norma(s, D3) ==
    LET Q == normaQuadrada(D3)
    IN  Bc2(Add, [i \in 1..Len(Q) |-> [j \in 1..Len(Q[i]) |-> Pow32(Q[i][j])]], s.identidade)

\* F = G * einsum('ij,ijk->ijk', true_divide(prodM, norma), difX)
matrizF(s, Rin) ==
    LET D3 == difX(s, Rin)
        Q == Bc2(Div, s.prodM, norma(s, D3))
    IN  [i \in 1..Len(D3) |-> [j \in 1..Len(D3[i]) |->
            [k \in 1..Len(D3[i][j]) |-> Mul(s.G, Mul(Q[i][j], D3[i][j][k]))]]]

\* Faulty variant of somaF: the reduction runs over the second axis.
somaF_SecondAxis(F3) ==
    [i \in 1..Len(F3) |-> [k \in 1..Len(F3[1][1]) |->
        SumNums([j \in 1..Len(F3[i]) |-> F3[i][j][k]])]]

\* Faulty variant of somaF: the last term of the sum is left out.
somaF_DropLast(F3) ==
    [j \in 1..Len(F3[1]) |-> [k \in 1..Len(F3[1][1]) |->
        SumNums([i \in 1..(Len(F3) - 1) |-> F3[i][j][k]])]]

\* sum(F): the builtin sum, 0 + F[0] + F[1] + ..., a reduction of the first axis
somaF(F3) ==
    [j \in 1..Len(F3[1]) |-> [k \in 1..Len(F3[1][1]) |->
        SumNums([i \in 1..Len(F3) |-> F3[i][j][k]])]]

\* forcas(R) where it returns: the pair (F, FSomas)
forcas(s, Rin) ==
    LET F3 == matrizF(s, Rin)
    IN  [F |-> F3, FSomas |-> somaF(F3)]

----------------------------------------------------------------------------
(* RK4.runge_kutta4 *)

k1_vet(s, Pin) == Bc2(Mul, Pin, s.massasDuplicadasInvertidas)

\* k1_1m, k1_2m, k1_3m (v1, v2, v3) are k1_vet times the inverse masses, again
\* and again; fator = (h/6) * (6*k1_vet + 3*h*k1_1m + h**2 * k1_2m + 0.25*h**3 * k1_3m)
fator(s, Pin) ==
    LET h == s.h
        inv == s.massasDuplicadasInvertidas
        v0 == k1_vet(s, Pin)
        v1 == Bc2(Mul, v0, inv)
        v2 == Bc2(Mul, v1, inv)
        v3 == Bc2(Mul, v2, inv)
        t1 == Scale(Int2Num(6), v0)
        t2 == Scale(Mul(Int2Num(3), h), v1)
        t3 == Scale(Mul(h, h), v2)
        t4 == Scale(Mul(<<1, 4>>, Mul(Mul(h, h), h)), v3)
    IN  Scale(Div(h, Int2Num(6)), Bc2(Add, Bc2(Add, Bc2(Add, t1, t2), t3), t4))

\* runge_kutta4 raises ValueError where an elementwise operation cannot broadcast
runge_kutta4_raises(s, Rin, Pin, FS) ==
    \/ ~Compat2(Pin, s.massasDuplicadasInvertidas)
    \/ ~Compat2(Rin, fator(s, Pin))
    \/ ~Compat2(Pin, FS)

\* Faulty variant of novas_posicoes: the positions move by h times the net force.
novas_posicoes_ByForce(s, Rin, Pin) ==
    CHOOSE out \in { Bc2(Add, Rin, Scale(s.h, fs.FSomas)) : fs \in {forcas(s, Rin)} } : TRUE

\* novas_posicoes = R + fator
novas_posicoes(s, Rin, Pin) == Bc2(Add, Rin, fator(s, Pin))

\* novos_momentos = P + h*FSomas
novos_momentos(s, Pin, FS) == Bc2(Add, Pin, Scale(s.h, FS))

\* runge_kutta4(R, P, FSomas) where it returns: the pair
\* (novas_posicoes, novos_momentos)
runge_kutta4(s, Rin, Pin, FS) ==
    [R |-> novas_posicoes(s, Rin, Pin), P |-> novos_momentos(s, Pin, FS)]

----------------------------------------------------------------------------
(* Inputs of the model *)

\* the mass lists an integrator is constructed with
MassLists ==
    { <<>>,
      <<One>>,
      <<One, One>>,
      <<One, Int2Num(2)>>,
      <<Int2Num(2), One, One>>,
      <<One, Int2Num(-2), Int2Num(3)>>,
      <<One, Zero>> }

\* the triples (h, G, dimensao) an integrator is constructed with
Settings ==
    { <<(<<1, 100>>), One, 1>>,
      <<One, Int2Num(2), 1>>,
      <<One, Int2Num(2), 2>> }

\* the shapes (rows, columns) of the arrays passed to aplicarNVezes
InputShapes == { <<1, 1>>, <<1, 2>>, <<2, 1>>, <<2, 2>>, <<3, 1>> }

\* the coordinates of the input positions: those of the first column, those
\* of the second
Coords(k) == IF k = 1 THEN { Int2Num(-1), One, Int2Num(3) } ELSE { Zero, Int2Num(3) }

\* the rows of the given length with coordinates in Coords
Rows1(cols) ==
    IF cols = 1 THEN { <<x>> : x \in Coords(1) }
    ELSE { <<x, y>> : x \in Coords(1), y \in Coords(2) }

PositionArrays == UNION { [1..sh[1] -> Rows1(sh[2])] : sh \in InputShapes }

Zeros(rows, cols) == [i \in 1..rows |-> [k \in 1..cols |-> Zero]]

\* particle i moving with momentum (i - 1, 2 - i, ...)
Moving(rows, cols) ==
    [i \in 1..rows |-> [k \in 1..cols |-> Int2Num(IF k = 1 THEN i - 1 ELSE 2 - i)]]

\* the momenta passed with the positions Rin: in the shape of Rin, every
\* particle at rest or the particles moving; or one row (0)
MomentumArrays(Rin) ==
    { Zeros(Rows(Rin), Cols(Rin)), Moving(Rows(Rin), Cols(Rin)), Zeros(1, 1) }

AllZero(A) == \A i \in 1..Rows(A) : \A k \in 1..Cols(A) : A[i][k] = Zero

Magnitude(x) == IF Abs(x[1]) > x[2] THEN Abs(x[1]) ELSE x[2]

Small2(A) == \A i \in 1..Rows(A) : \A k \in 1..Cols(A) : Magnitude(A[i][k]) <= MaxMagnitude

\* The model follows an iteration only where its exact arithmetic can: every
\* squared distance is the square of a rational (so that its power 3/2 is
\* rational), and the numbers are small enough for 32-bit integers.
Representable(s, Rin, Pin) ==
    /\ Small2(Rin)
    /\ Small2(Pin)
    /\ s.h[2] > 10 => AllZero(Pin)
    /\ ~forcas_raises(s, Rin) =>
          LET D3 == difX(s, Rin)
          IN  /\ \A i \in 1..Len(D3) : \A j \in 1..Len(D3[i]) : \A k \in 1..Len(D3[i][j]) :
                    Magnitude(D3[i][j][k]) <= MaxMagnitude
              /\ LET Q == normaQuadrada(D3)
                 IN  \A i \in 1..Len(Q) : \A j \in 1..Len(Q[i]) :
                        IsSquare(Q[i][j][1]) /\ IsSquare(Q[i][j][2])

\* the arrays (R, P) the caller passes to the instance s
Inputs(s) ==
    UNION { { <<Rin, Pin>> : Pin \in { p \in MomentumArrays(Rin) : Representable(s, Rin, p) } } :
            Rin \in PositionArrays }

----------------------------------------------------------------------------
(* The caller: construction, then calls of aplicarNVezes *)

NoResult == [kind |-> "none", error |-> "", R |-> <<>>, P |-> <<>>, F |-> <<>>]

Raised(e) == [kind |-> "raised", error |-> e, R |-> <<>>, P |-> <<>>, F |-> <<>>]

Returned(r, p, f) == [kind |-> "returned", error |-> "", R |-> r, P |-> p, F |-> f]

Init ==
    /\ pc = "new"
    /\ self = NoRK4
    /\ argR = <<>> /\ argP = <<>>
    /\ n = 0 /\ it = 0
    /\ R = <<>> /\ P = <<>> /\ F = <<>> /\ FSomas = <<>> /\ Fbound = FALSE
    /\ stepR = <<>> /\ stepP = <<>>
    /\ ret = NoResult

\* RK4(massas, h, G, dimensao)
Construct ==
    /\ pc = "new"
    /\ \E massas \in MassLists, set \in Settings :
          IF guardar_massas_raises(massas, set[3])
          THEN /\ pc' = "failed"
               /\ ret' = Raised("ZeroDivisionError")
               /\ self' = self
          ELSE /\ pc' = "ready"
               /\ ret' = NoResult
               /\ self' = NewRK4(massas, set[1], set[2], set[3])
    /\ UNCHANGED <<argR, argP, n, it, R, P, F, FSomas, Fbound, stepR, stepP>>

\* aplicarNVezes(R, P, n): the call binds the parameters
Call ==
    /\ pc = "ready"
    /\ \E in \in Inputs(self), nn \in 0..MaxSteps :
          /\ argR' = in[1] /\ argP' = in[2]
          /\ R' = in[1] /\ P' = in[2] /\ n' = nn
    /\ it' = 0
    /\ F' = <<>> /\ FSomas' = <<>> /\ Fbound' = FALSE
    /\ stepR' = <<>> /\ stepP' = <<>>
    /\ ret' = NoResult
    /\ pc' = "running"
    /\ UNCHANGED self

\* Faulty variant of Iterate: every iteration integrates the momenta the call
\* was given, not those of the previous iteration.
Iterate_StaleMomenta ==
    /\ pc = "running"
    /\ it < n
    /\ Representable(self, R, P) = TRUE
    /\ IF forcas_raises(self, R)
       THEN /\ pc' = "raised"
            /\ ret' = Raised(forcas_error(self, R))
            /\ UNCHANGED <<it, R, P, F, FSomas, Fbound>>
       ELSE \E fs \in {forcas(self, R)} :
                /\ F' = fs.F
                /\ FSomas' = fs.FSomas
                /\ Fbound' = TRUE
                /\ IF runge_kutta4_raises(self, R, argP, fs.FSomas)
                   THEN /\ pc' = "raised"
                        /\ ret' = Raised("ValueError")
                        /\ UNCHANGED <<it, R, P>>
                   ELSE \E rk \in {runge_kutta4(self, R, argP, fs.FSomas)} :
                        /\ R' = rk.R
                        /\ P' = rk.P
                        /\ it' = it + 1
                        /\ UNCHANGED <<pc, ret>>
    /\ stepR' = R /\ stepP' = P
    /\ UNCHANGED <<self, argR, argP, n>>

\* Faulty variant of Iterate: R += fator, which writes into the caller's array.
Iterate_InPlace ==
    /\ pc = "running"
    /\ it < n
    /\ Representable(self, R, P) = TRUE
    /\ IF forcas_raises(self, R)
       THEN /\ pc' = "raised"
            /\ ret' = Raised(forcas_error(self, R))
            /\ UNCHANGED <<it, R, P, F, FSomas, Fbound, argR>>
       ELSE \E fs \in {forcas(self, R)} :
                /\ F' = fs.F
                /\ FSomas' = fs.FSomas
                /\ Fbound' = TRUE
                /\ IF runge_kutta4_raises(self, R, P, fs.FSomas)
                   THEN /\ pc' = "raised"
                        /\ ret' = Raised("ValueError")
                        /\ UNCHANGED <<it, R, P, argR>>
                   ELSE \E rk \in {runge_kutta4(self, R, P, fs.FSomas)} :
                        /\ R' = rk.R
                        /\ P' = rk.P
                        /\ it' = it + 1
                        /\ argR' = rk.R
                        /\ UNCHANGED <<pc, ret>>
    /\ stepR' = R /\ stepP' = P
    /\ UNCHANGED <<self, argP, n>>

\* one iteration of the loop: F, FSomas = self.forcas(R);
\* R, P = self.runge_kutta4(R, P, FSomas)
Iterate ==
    /\ pc = "running"
    /\ it < n
    /\ Representable(self, R, P) = TRUE
    /\ IF forcas_raises(self, R)
       THEN /\ pc' = "raised"
            /\ ret' = Raised(forcas_error(self, R))
            /\ UNCHANGED <<it, R, P, F, FSomas, Fbound>>
       ELSE \E fs \in {forcas(self, R)} :
                /\ F' = fs.F
                /\ FSomas' = fs.FSomas
                /\ Fbound' = TRUE
                /\ IF runge_kutta4_raises(self, R, P, fs.FSomas)
                   THEN /\ pc' = "raised"
                        /\ ret' = Raised("ValueError")
                        /\ UNCHANGED <<it, R, P>>
                   ELSE \E rk \in {runge_kutta4(self, R, P, fs.FSomas)} :
                        /\ R' = rk.R
                        /\ P' = rk.P
                        /\ it' = it + 1
                        /\ UNCHANGED <<pc, ret>>
    /\ stepR' = R /\ stepP' = P
    /\ UNCHANGED <<self, argR, argP, n>>

\* the loop is over: return R, P, F
Return ==
    /\ pc = "running"
    /\ it = n
    /\ ret' = IF Fbound THEN Returned(R, P, F) ELSE Raised("UnboundLocalError")
    /\ pc' = IF Fbound THEN "returned" ELSE "raised"
    /\ UNCHANGED <<self, argR, argP, n, it, R, P, F, FSomas, Fbound, stepR, stepP>>

\* the caller goes on from the arrays the last call returned:
\* R, P, F = aplicarNVezes(R, P, n)
CallAgain ==
    /\ pc = "returned"
    /\ \E nn \in 0..MaxSteps :
          /\ Representable(self, ret.R, ret.P) = TRUE
          /\ argR' = ret.R /\ argP' = ret.P
          /\ R' = ret.R /\ P' = ret.P /\ n' = nn
    /\ it' = 0
    /\ F' = <<>> /\ FSomas' = <<>> /\ Fbound' = FALSE
    /\ stepR' = <<>> /\ stepP' = <<>>
    /\ ret' = NoResult
    /\ pc' = "running"
    /\ UNCHANGED self

Next == Construct \/ Call \/ Iterate \/ Return \/ CallAgain

Spec == Init /\ [][Next]_vars

----------------------------------------------------------------------------
(* Properties *)

\* == on floats: nan equals nothing
Eq(x, y) == x # NaN /\ y # NaN /\ x = y

AbsNum(x) == <<Abs(x[1]), x[2]>>

\* A has one row per particle and one column per dimension
ValidShape(s, A) == Rows(A) = s.qntd /\ Cols(A) = s.dimensao

\* A is an array of finite numbers
Finite2(A) == \A i \in 1..Rows(A) : \A k \in 1..Cols(A) : IsFinite(A[i][k])

\* no two rows of A are the same point
Distinct(A) == \A i, j \in 1..Rows(A) : i # j => A[i] # A[j]

\* sum over the particles of column k
ColSum(A, k) == SumNums([i \in 1..Rows(A) |-> A[i][k]])

\* aplicarNVezes is over, by a return or by an exception
CallOver == pc \in {"returned", "raised"}

\* C1: aplicarNVezes with n = 0 on valid positions and momenta completes
\* normally and returns R and P unchanged.
C1_ZeroStepsIsNoOp ==
    (CallOver /\ n = 0 /\ ValidShape(self, argR) /\ ValidShape(self, argP))
        => (ret.kind = "returned" /\ ret.R = argR /\ ret.P = argP)

\* C2: no integrator instance exists for a mass list that is empty or holds a
\* mass <= 0: construction succeeds only when every mass is > 0.
C2_InvalidMassRejected ==
    pc \notin {"new", "failed"}
        => (self.qntd > 0 /\ \A i \in 1..self.qntd : Less(Zero, self.massas[i]))

\* the two-body scenario: masses [1, 1], G = 1, dimension 1, h = 0.01,
\* positions [[-1], [1]], momenta [[0], [0]]
TwoBodyScenario ==
    /\ pc \notin {"new", "failed", "ready"}
    /\ self.massas = <<One, One>> /\ self.G = One /\ self.dimensao = 1
    /\ self.h = <<1, 100>>
    /\ argR = <<(<<Int2Num(-1)>>), (<<One>>)>>
    /\ argP = Zeros(2, 1)

\* the distance between the two particles of a one-dimensional R
Distance(A) == AbsNum(Sub(A[1][1], A[2][1]))

\* C3 as stated: in the two-body scenario, after exactly one step the two
\* positions are strictly closer than the initial separation 2.
C3_CloserAfterOneStep ==
    (TwoBodyScenario /\ it = 1) => Less(Distance(R), Int2Num(2))

\* C3 as amended: in the two-body scenario, after exactly one step the two
\* positions are unchanged, so their distance is still exactly 2.
C3_SameDistanceAfterOneStep ==
    (TwoBodyScenario /\ it = 1) => (R = argR /\ Distance(R) = Int2Num(2))

C3_Witness == TwoBodyScenario /\ it = 1 /\ pc = "returned" /\ ret.R = R

\* two equal positive masses at rest at -1 and +1 (in either order), in one
\* dimension, with G > 0 and h > 0, and one step taken
EqualPairAtRest ==
    /\ pc \notin {"new", "failed", "ready"}
    /\ self.qntd = 2 /\ self.dimensao = 1
    /\ self.massas[1] = self.massas[2] /\ Less(Zero, self.massas[1])
    /\ Less(Zero, self.G) /\ Less(Zero, self.h)
    /\ argR \in { <<(<<Int2Num(-1)>>), (<<One>>)>>, <<(<<One>>), (<<Int2Num(-1)>>)>> }
    /\ argP = Zeros(2, 1)
    /\ it = 1

\* C4: after one step from two equal masses at rest at -1 and +1 the momenta
\* are opposite and equal in magnitude, the particle at -1 has a strictly
\* positive momentum and the particle at +1 a strictly negative one.
C4_Attraction ==
    EqualPairAtRest =>
        /\ Eq(P[1][1], Neg(P[2][1]))
        /\ \A i \in 1..2 :
              /\ argR[i][1] = Int2Num(-1) => Less(Zero, P[i][1])
              /\ argR[i][1] = One => Less(P[i][1], Zero)

C4_Witness == EqualPairAtRest /\ pc = "returned" /\ ret.P = P /\ self.G = Int2Num(2)

\* forcas has run on the positions stepR, one row per particle, no two
\* particles at the same point
ForcesComputed == Fbound /\ Rows(stepR) = self.qntd /\ Distinct(stepR)

\* C5: on pairwise-distinct positions the force tensor is antisymmetric in its
\* particle indices, F[i][j] = -F[j][i], and its diagonal is the zero vector.
C5_Antisymmetry ==
    ForcesComputed =>
        \A i, j \in 1..self.qntd : \A k \in 1..Cols(stepR) :
            /\ Eq(F[i][j][k], Neg(F[j][i][k]))
            /\ Eq(F[i][i][k], Zero)

C5_Witness ==
    /\ ForcesComputed
    /\ self.qntd = 3
    /\ self.massas[1] # self.massas[2]
    /\ \A i, j \in 1..3 : i # j => F[i][j][1] # Zero

\* a call has returned (n >= 1 steps) that started from pairwise-distinct
\* positions and finite momenta, and the momenta it returns are small enough for their sum to be
\* computed in 32 bits
ReturnedMomenta ==
    /\ pc = "returned"
    /\ ValidShape(self, argR) /\ ValidShape(self, argP) /\ Distinct(argR)
    /\ Finite2(argP)
    /\ Small2(ret.P)

\* C6: a call that returns (n >= 1 steps), from pairwise-distinct positions,
\* returns momenta whose sum over the particles is that of the momenta given.
C6_MomentumConserved ==
    ReturnedMomenta => \A k \in 1..self.dimensao : Eq(ColSum(ret.P, k), ColSum(argP, k))

C6_Witness ==
    /\ ReturnedMomenta
    /\ self.qntd = 3 /\ n = 2
    /\ self.massas[1] # self.massas[2]
    /\ \A i \in 1..3 : ret.P[i] # argP[i]

\* one step: the body of the loop, as a function of the arrays it starts from
step(s, Rin, Pin) ==
    CHOOSE out \in UNION { { [R |-> rk.R, P |-> rk.P, F |-> fs.F] :
                               rk \in {runge_kutta4(s, Rin, Pin, fs.FSomas)} } :
                           fs \in {forcas(s, Rin)} } : TRUE

\* k steps in sequence, each from the arrays the previous one produced
RECURSIVE advance(_, _, _, _)
advance(s, Rin, Pin, k) ==
    IF k = 0 THEN [R |-> Rin, P |-> Pin, F |-> <<>>]
    ELSE CHOOSE next \in { step(s, prev.R, prev.P) : prev \in {advance(s, Rin, Pin, k - 1)} } :
            TRUE

\* C7: a call that returns has run exactly n >= 1 iterations, its R and P are
\* those of n steps in sequence from the arrays given, and its F is the tensor
\* of the positions the n-th step started from.
C7_SequentialSteps ==
    [][ (pc = "running" /\ pc' = "returned") =>
            /\ n >= 1 /\ it = n
            /\ \E before \in {advance(self, argR, argP, n - 1)} :
               \E last \in {step(self, before.R, before.P)} :
                  /\ ret'.R = last.R
                  /\ ret'.P = last.P
                  /\ ret'.F = last.F ]_vars

C7_Witness ==
    /\ pc = "returned" /\ n = 2 /\ self.qntd >= 2
    /\ ValidShape(self, argR) /\ ValidShape(self, argP)
    /\ stepR # argR /\ stepP # argP /\ ret.R # stepR /\ ret.P # stepP

\* C8: a call with positions or momenta of another shape than (N, D) never
\* returns a result.
C8_MismatchNeverReturns ==
    pc = "returned" => (ValidShape(self, argR) /\ ValidShape(self, argP))

\* C9: while aplicarNVezes runs the caller's arrays keep their values, and
\* once constructed the instance keeps its fields.
C9_FrameOnly ==
    [][ /\ pc = "running" => (argR' = argR /\ argP' = argP)
        /\ pc # "new" => self' = self ]_vars

C9_Witness ==
    /\ pc = "returned" /\ it = 2
    /\ ret.R # argR /\ ret.P # argP
    /\ self = NewRK4(self.massas, self.h, self.G, self.dimensao)

\* G * m_i * m_j * (R_i - R_j)[k] / |R_i - R_j|^3, and 0 for i = j
PairForce(s, Rin, i, j, k) ==
    IF i = j THEN Zero
    ELSE LET d2 == SumNums([c \in 1..Cols(Rin) |->
                       Mul(Sub(Rin[i][c], Rin[j][c]), Sub(Rin[i][c], Rin[j][c]))])
         IN  Div(Mul(Mul(s.G, Mul(s.massas[i], s.massas[j])), Sub(Rin[i][k], Rin[j][k])),
                 Pow32(d2))

PairwiseAsStated ==
    \A i, j \in 1..self.qntd : \A k \in 1..Cols(stepR) :
        Eq(F[i][j][k], PairForce(self, stepR, i, j, k))

\* C10 as stated: the net force on particle i is the sum of F[i][j] over the
\* second index j, and F[i][j] = G m_i m_j (R_i - R_j) / |R_i - R_j|^3.
C10_NetForceOverSecondIndex ==
    ForcesComputed =>
        /\ \A i \in 1..self.qntd : \A k \in 1..Cols(stepR) :
              Eq(FSomas[i][k], SumNums([j \in 1..self.qntd |-> F[i][j][k]]))
        /\ PairwiseAsStated

\* C10 as amended: the net force on particle i is the sum of F[j][i] over the
\* first index j, the negative of the sum over the second index, and
\* F[i][j] = G m_i m_j (R_i - R_j) / |R_i - R_j|^3.
C10_NetForceOverFirstIndex ==
    ForcesComputed =>
        /\ \A i \in 1..self.qntd : \A k \in 1..Cols(stepR) :
              /\ Eq(FSomas[i][k], SumNums([j \in 1..self.qntd |-> F[j][i][k]]))
              /\ Eq(FSomas[i][k], Neg(SumNums([j \in 1..self.qntd |-> F[i][j][k]])))
        /\ PairwiseAsStated

C10_Witness ==
    /\ ForcesComputed /\ self.qntd = 2 /\ Cols(stepR) = 2
    /\ self.massas[1] # self.massas[2]
    /\ \A i \in 1..2 : FSomas[i][1] # Zero /\ FSomas[i][2] # Zero

====
